---- MODULE Spec2Model ----
(***************************************************************************)
(* Transaction types of package txtypes: L2TransferTxInfo (transfer.go)    *)
(* and L2WithdrawTxInfo (withdraw.go).  Validate, Hash and                 *)
(* GetL1SignatureBody are pure operators over a record of the struct's     *)
(* fields; the state machine is one instance of either type on which a     *)
(* caller assigns exported fields and calls the methods in any order.      *)
(*                                                                         *)
(* 64-bit machine words are 4-tuples of 16-bit limbs, least significant    *)
(* first (TLC's integers are 32 bits wide).  An int64 is kept as the       *)
(* integer it denotes, [neg, mag], and the conversion uint64(x) computes   *)
(* its two's complement bit pattern.                                       *)
(***************************************************************************)
EXTENDS Integers, Sequences, FiniteSets

\* limb radix, 2^16
Base == 256 * 256

\* ---------------------------------------------------------------- uint64
\* a uint64 holding a small natural n < Base * 32768
U(n) == <<n % Base, n \div Base, 0, 0>>

U64Zero == <<0, 0, 0, 0>>

U64Max == <<Base - 1, Base - 1, Base - 1, Base - 1>>

\* carry into limb i of a + b + c0 (c0 = carry into limb 1)
RECURSIVE CarryIn(_, _, _, _)
CarryIn(a, b, c0, i) ==
    IF i = 1 THEN c0
    ELSE (a[i - 1] + b[i - 1] + CarryIn(a, b, c0, i - 1)) \div Base

\* a + b + c0 on uint64, wrapping modulo 2^64 as Go's + does
AddC(a, b, c0) == [i \in 1..4 |-> (a[i] + b[i] + CarryIn(a, b, c0, i)) % Base]

AddU64(a, b) == AddC(a, b, 0)

\* bitwise complement ^a
NotU64(a) == [i \in 1..4 |-> (Base - 1) - a[i]]

\* a - b on uint64, wrapping modulo 2^64
SubU64(a, b) == AddC(a, NotU64(b), 1)

\* -a on uint64, wrapping modulo 2^64
NegU64(a) == AddC(U64Zero, NotU64(a), 1)

\* a < b on uint64
LtU64(a, b) ==
    \E i \in 1..4 : a[i] < b[i] /\ \A j \in (i + 1)..4 : a[j] = b[j]

\* v & 0xFFFFFFFF
And32(v) == <<v[1], v[2], 0, 0>>

\* v >> 16
Shr16(v) == <<v[2], v[3], v[4], 0>>

\* v >> 32
Shr32(v) == <<v[3], v[4], 0, 0>>

\* v << 32
Shl32(v) == <<0, 0, v[1], v[2]>>

\* ----------------------------------------------------------------- int64
I64(neg, mag) == [neg |-> neg, mag |-> mag]

\* the int64 of a small integer n, |n| < Base * 32768
I(n) == IF n < 0 THEN I64(TRUE, U(-n)) ELSE I64(FALSE, U(n))

\* a < b on int64
LtI64(a, b) ==
    IF a.neg /\ ~b.neg THEN TRUE
    ELSE IF ~a.neg /\ b.neg THEN FALSE
    ELSE IF a.neg THEN LtU64(b.mag, a.mag)
    ELSE LtU64(a.mag, b.mag)

\* uint64(x) for x int64: the two's complement bit pattern of x
Uint64FromInt64(x) == IF x.neg THEN NegU64(x.mag) ELSE x.mag

\* int64(u) for u uint64: the integer whose bit pattern is u
Int64FromUint64(u) ==
    IF u[4] >= Base \div 2 THEN I64(TRUE, NegU64(u)) ELSE I64(FALSE, u)

\* a + b on int64, wrapping as Go's + does
AddI64(a, b) == Int64FromUint64(AddU64(Uint64FromInt64(a), Uint64FromInt64(b)))

\* uint64(x) for x uint8 or uint32 held as a small natural
Uint64FromSmall(n) == U(n)

\* uint64(x) for x int16: sign extension to 64 bits
Uint64FromInt16(x) == IF x < 0 THEN NegU64(U(-x)) ELSE U(x)

\* uint32(x) for x int16: sign extension to 32 bits
Uint32FromInt16(x) == IF x < 0 THEN And32(NegU64(U(-x))) ELSE U(x)


\* ------------------------------------------------------------- constants
\* Package constants read by transfer.go and withdraw.go; they are declared in
\* the package's constants file.
MinAccountIndex == I(0)

\* (1 << 48) - 2
MaxAccountIndex == I64(FALSE, <<Base - 2, Base - 1, Base - 1, 0>>)

MinApiKeyIndex == 0

MaxApiKeyIndex == 254

MinAssetIndex == 1

MaxAssetIndex == 63

AssetRouteType_Perps == 0

AssetRouteType_Spot == 1

\* (1 << 60) - 1
MaxTransferAmount == I64(FALSE, <<Base - 1, Base - 1, Base - 1, 4095>>)

\* (1 << 60) - 1
MaxWithdrawalAmount == <<Base - 1, Base - 1, Base - 1, 4095>>

MinNonce == I(0)

\* (1 << 48) - 1
MaxTimestamp == I64(FALSE, <<Base - 1, Base - 1, Base - 1, 0>>)

TxTypeL2Transfer == 12

TxTypeL2Withdraw == 13

\* ---------------------------------------------------------------- errors
nil == "nil"

\* ------------------------------------------------ L2TransferTxInfo.Validate
\* TransferValidate with the Amount checks ahead of the AssetIndex checks
TransferValidate_AmountFirst(txInfo) ==
    IF LtI64(txInfo.FromAccountIndex, AddI64(MinAccountIndex, I(1)))
        THEN "ErrFromAccountIndexTooLow"
    ELSE IF LtI64(MaxAccountIndex, txInfo.FromAccountIndex)
        THEN "ErrFromAccountIndexTooHigh"
    ELSE IF txInfo.ApiKeyIndex < MinApiKeyIndex
        THEN "ErrApiKeyIndexTooLow"
    ELSE IF txInfo.ApiKeyIndex > MaxApiKeyIndex
        THEN "ErrApiKeyIndexTooHigh"
    ELSE IF LtI64(txInfo.ToAccountIndex, MinAccountIndex)
        THEN "ErrToAccountIndexTooLow"
    ELSE IF LtI64(MaxAccountIndex, txInfo.ToAccountIndex)
        THEN "ErrToAccountIndexTooHigh"
    ELSE IF ~LtI64(I(0), txInfo.Amount)
        THEN "ErrTransferAmountTooLow"
    ELSE IF LtI64(MaxTransferAmount, txInfo.Amount)
        THEN "ErrTransferAmountTooHigh"
    ELSE IF txInfo.AssetIndex < MinAssetIndex
        THEN "ErrAssetIndexTooLow"
    ELSE IF txInfo.AssetIndex > MaxAssetIndex
        THEN "ErrAssetIndexTooHigh"
    ELSE IF txInfo.FromRouteType # AssetRouteType_Perps
            /\ txInfo.FromRouteType # AssetRouteType_Spot
        THEN "ErrRouteTypeInvalid"
    ELSE IF txInfo.ToRouteType # AssetRouteType_Perps
            /\ txInfo.ToRouteType # AssetRouteType_Spot
        THEN "ErrRouteTypeInvalid"
    ELSE IF LtI64(txInfo.USDCFee, I(0))
        THEN "ErrTransferFeeNegative"
    ELSE IF LtI64(MaxTransferAmount, txInfo.USDCFee)
        THEN "ErrTransferFeeTooHigh"
    ELSE IF LtI64(txInfo.Nonce, MinNonce)
        THEN "ErrNonceTooLow"
    ELSE IF LtI64(txInfo.ExpiredAt, I(0)) \/ LtI64(MaxTimestamp, txInfo.ExpiredAt)
        THEN "ErrExpiredAtInvalid"
    ELSE nil

\* TransferValidate with Amount < 0 in place of Amount <= 0
TransferValidate_ZeroAmount(txInfo) ==
    IF LtI64(txInfo.FromAccountIndex, AddI64(MinAccountIndex, I(1)))
        THEN "ErrFromAccountIndexTooLow"
    ELSE IF LtI64(MaxAccountIndex, txInfo.FromAccountIndex)
        THEN "ErrFromAccountIndexTooHigh"
    ELSE IF txInfo.ApiKeyIndex < MinApiKeyIndex
        THEN "ErrApiKeyIndexTooLow"
    ELSE IF txInfo.ApiKeyIndex > MaxApiKeyIndex
        THEN "ErrApiKeyIndexTooHigh"
    ELSE IF LtI64(txInfo.ToAccountIndex, MinAccountIndex)
        THEN "ErrToAccountIndexTooLow"
    ELSE IF LtI64(MaxAccountIndex, txInfo.ToAccountIndex)
        THEN "ErrToAccountIndexTooHigh"
    ELSE IF txInfo.AssetIndex < MinAssetIndex
        THEN "ErrAssetIndexTooLow"
    ELSE IF txInfo.AssetIndex > MaxAssetIndex
        THEN "ErrAssetIndexTooHigh"
    ELSE IF txInfo.FromRouteType # AssetRouteType_Perps
            /\ txInfo.FromRouteType # AssetRouteType_Spot
        THEN "ErrRouteTypeInvalid"
    ELSE IF txInfo.ToRouteType # AssetRouteType_Perps
            /\ txInfo.ToRouteType # AssetRouteType_Spot
        THEN "ErrRouteTypeInvalid"
    ELSE IF LtI64(txInfo.Amount, I(0))
        THEN "ErrTransferAmountTooLow"
    ELSE IF LtI64(MaxTransferAmount, txInfo.Amount)
        THEN "ErrTransferAmountTooHigh"
    ELSE IF LtI64(txInfo.USDCFee, I(0))
        THEN "ErrTransferFeeNegative"
    ELSE IF LtI64(MaxTransferAmount, txInfo.USDCFee)
        THEN "ErrTransferFeeTooHigh"
    ELSE IF LtI64(txInfo.Nonce, MinNonce)
        THEN "ErrNonceTooLow"
    ELSE IF LtI64(txInfo.ExpiredAt, I(0)) \/ LtI64(MaxTimestamp, txInfo.ExpiredAt)
        THEN "ErrExpiredAtInvalid"
    ELSE nil

\* TransferValidate with the sender's minimum at MinAccountIndex
TransferValidate_FromMin(txInfo) ==
    IF LtI64(txInfo.FromAccountIndex, MinAccountIndex)
        THEN "ErrFromAccountIndexTooLow"
    ELSE IF LtI64(MaxAccountIndex, txInfo.FromAccountIndex)
        THEN "ErrFromAccountIndexTooHigh"
    ELSE IF txInfo.ApiKeyIndex < MinApiKeyIndex
        THEN "ErrApiKeyIndexTooLow"
    ELSE IF txInfo.ApiKeyIndex > MaxApiKeyIndex
        THEN "ErrApiKeyIndexTooHigh"
    ELSE IF LtI64(txInfo.ToAccountIndex, MinAccountIndex)
        THEN "ErrToAccountIndexTooLow"
    ELSE IF LtI64(MaxAccountIndex, txInfo.ToAccountIndex)
        THEN "ErrToAccountIndexTooHigh"
    ELSE IF txInfo.AssetIndex < MinAssetIndex
        THEN "ErrAssetIndexTooLow"
    ELSE IF txInfo.AssetIndex > MaxAssetIndex
        THEN "ErrAssetIndexTooHigh"
    ELSE IF txInfo.FromRouteType # AssetRouteType_Perps
            /\ txInfo.FromRouteType # AssetRouteType_Spot
        THEN "ErrRouteTypeInvalid"
    ELSE IF txInfo.ToRouteType # AssetRouteType_Perps
            /\ txInfo.ToRouteType # AssetRouteType_Spot
        THEN "ErrRouteTypeInvalid"
    ELSE IF ~LtI64(I(0), txInfo.Amount)
        THEN "ErrTransferAmountTooLow"
    ELSE IF LtI64(MaxTransferAmount, txInfo.Amount)
        THEN "ErrTransferAmountTooHigh"
    ELSE IF LtI64(txInfo.USDCFee, I(0))
        THEN "ErrTransferFeeNegative"
    ELSE IF LtI64(MaxTransferAmount, txInfo.USDCFee)
        THEN "ErrTransferFeeTooHigh"
    ELSE IF LtI64(txInfo.Nonce, MinNonce)
        THEN "ErrNonceTooLow"
    ELSE IF LtI64(txInfo.ExpiredAt, I(0)) \/ LtI64(MaxTimestamp, txInfo.ExpiredAt)
        THEN "ErrExpiredAtInvalid"
    ELSE nil

\* Validate of transfer.go: the checks in source order, each an early return
TransferValidate(txInfo) ==
    IF LtI64(txInfo.FromAccountIndex, AddI64(MinAccountIndex, I(1)))
        THEN "ErrFromAccountIndexTooLow"
    ELSE IF LtI64(MaxAccountIndex, txInfo.FromAccountIndex)
        THEN "ErrFromAccountIndexTooHigh"
    ELSE IF txInfo.ApiKeyIndex < MinApiKeyIndex
        THEN "ErrApiKeyIndexTooLow"
    ELSE IF txInfo.ApiKeyIndex > MaxApiKeyIndex
        THEN "ErrApiKeyIndexTooHigh"
    ELSE IF LtI64(txInfo.ToAccountIndex, MinAccountIndex)
        THEN "ErrToAccountIndexTooLow"
    ELSE IF LtI64(MaxAccountIndex, txInfo.ToAccountIndex)
        THEN "ErrToAccountIndexTooHigh"
    ELSE IF txInfo.AssetIndex < MinAssetIndex
        THEN "ErrAssetIndexTooLow"
    ELSE IF txInfo.AssetIndex > MaxAssetIndex
        THEN "ErrAssetIndexTooHigh"
    ELSE IF txInfo.FromRouteType # AssetRouteType_Perps
            /\ txInfo.FromRouteType # AssetRouteType_Spot
        THEN "ErrRouteTypeInvalid"
    ELSE IF txInfo.ToRouteType # AssetRouteType_Perps
            /\ txInfo.ToRouteType # AssetRouteType_Spot
        THEN "ErrRouteTypeInvalid"
    ELSE IF ~LtI64(I(0), txInfo.Amount)
        THEN "ErrTransferAmountTooLow"
    ELSE IF LtI64(MaxTransferAmount, txInfo.Amount)
        THEN "ErrTransferAmountTooHigh"
    ELSE IF LtI64(txInfo.USDCFee, I(0))
        THEN "ErrTransferFeeNegative"
    ELSE IF LtI64(MaxTransferAmount, txInfo.USDCFee)
        THEN "ErrTransferFeeTooHigh"
    ELSE IF LtI64(txInfo.Nonce, MinNonce)
        THEN "ErrNonceTooLow"
    ELSE IF LtI64(txInfo.ExpiredAt, I(0)) \/ LtI64(MaxTimestamp, txInfo.ExpiredAt)
        THEN "ErrExpiredAtInvalid"
    ELSE nil

\* ------------------------------------------------ L2WithdrawTxInfo.Validate
\* WithdrawValidate accepting AssetRouteType_Perps only
WithdrawValidate_PerpsOnly(txInfo) ==
    IF LtI64(txInfo.FromAccountIndex, MinAccountIndex)
        THEN "ErrFromAccountIndexTooLow"
    ELSE IF LtI64(MaxAccountIndex, txInfo.FromAccountIndex)
        THEN "ErrFromAccountIndexTooHigh"
    ELSE IF txInfo.ApiKeyIndex < MinApiKeyIndex
        THEN "ErrApiKeyIndexTooLow"
    ELSE IF txInfo.ApiKeyIndex > MaxApiKeyIndex
        THEN "ErrApiKeyIndexTooHigh"
    ELSE IF txInfo.AssetIndex < MinAssetIndex
        THEN "ErrAssetIndexTooLow"
    ELSE IF txInfo.AssetIndex > MaxAssetIndex
        THEN "ErrAssetIndexTooHigh"
    ELSE IF txInfo.RouteType # AssetRouteType_Perps
        THEN "ErrRouteTypeInvalid"
    ELSE IF txInfo.Amount = U64Zero
        THEN "ErrWithdrawalAmountTooLow"
    ELSE IF LtU64(MaxWithdrawalAmount, txInfo.Amount)
        THEN "ErrWithdrawalAmountTooHigh"
    ELSE IF LtI64(txInfo.Nonce, MinNonce)
        THEN "ErrNonceTooLow"
    ELSE IF LtI64(txInfo.ExpiredAt, I(0)) \/ LtI64(MaxTimestamp, txInfo.ExpiredAt)
        THEN "ErrExpiredAtInvalid"
    ELSE nil

\* Validate of withdraw.go: the checks in source order, each an early return
WithdrawValidate(txInfo) ==
    IF LtI64(txInfo.FromAccountIndex, MinAccountIndex)
        THEN "ErrFromAccountIndexTooLow"
    ELSE IF LtI64(MaxAccountIndex, txInfo.FromAccountIndex)
        THEN "ErrFromAccountIndexTooHigh"
    ELSE IF txInfo.ApiKeyIndex < MinApiKeyIndex
        THEN "ErrApiKeyIndexTooLow"
    ELSE IF txInfo.ApiKeyIndex > MaxApiKeyIndex
        THEN "ErrApiKeyIndexTooHigh"
    ELSE IF txInfo.AssetIndex < MinAssetIndex
        THEN "ErrAssetIndexTooLow"
    ELSE IF txInfo.AssetIndex > MaxAssetIndex
        THEN "ErrAssetIndexTooHigh"
    ELSE IF txInfo.RouteType # AssetRouteType_Perps
            /\ txInfo.RouteType # AssetRouteType_Spot
        THEN "ErrRouteTypeInvalid"
    ELSE IF txInfo.Amount = U64Zero
        THEN "ErrWithdrawalAmountTooLow"
    ELSE IF LtU64(MaxWithdrawalAmount, txInfo.Amount)
        THEN "ErrWithdrawalAmountTooHigh"
    ELSE IF LtI64(txInfo.Nonce, MinNonce)
        THEN "ErrNonceTooLow"
    ELSE IF LtI64(txInfo.ExpiredAt, I(0)) \/ LtI64(MaxTimestamp, txInfo.ExpiredAt)
        THEN "ErrExpiredAtInvalid"
    ELSE nil

\* ------------------------------------------------------- field elements
\* Goldilocks field order 2^64 - 2^32 + 1; an element is its canonical
\* representative, a uint64 below the order.
FieldOrder == <<1, 0, Base - 1, Base - 1>>

\* g.FromUint64
FromUint64(v) == IF LtU64(v, FieldOrder) THEN v ELSE SubU64(v, FieldOrder)

\* g.FromUint32, on a uint32 held as a uint64 below 2^32
FromUint32(v) == v

\* g.FromInt64: the field element of the integer x
FromInt64(x) == IF x.neg THEN SubU64(FieldOrder, x.mag) ELSE x.mag

\* p2.HashToQuinticExtension(elems).ToLittleEndianBytes(): the digest of a
\* preimage, kept as the preimage it commits to (collision-free hash)
HashToQuinticExtension(elems) == [digestOf |-> elems]

\* ---------------------------------------------------- L2TransferTxInfo.Hash
\* TransferElems with ToAccountIndex appended before ApiKeyIndex
TransferElems_ToBeforeApiKey(txInfo, lighterChainId) ==
    << FromUint32(Uint64FromSmall(lighterChainId)),
       FromUint32(Uint64FromSmall(TxTypeL2Transfer)),
       FromInt64(txInfo.Nonce),
       FromInt64(txInfo.ExpiredAt),
       FromInt64(txInfo.FromAccountIndex),
       FromInt64(txInfo.ToAccountIndex),
       FromUint32(Uint64FromSmall(txInfo.ApiKeyIndex)),
       FromUint32(Uint32FromInt16(txInfo.AssetIndex)),
       FromUint32(Uint64FromSmall(txInfo.FromRouteType)),
       FromUint32(Uint64FromSmall(txInfo.ToRouteType)),
       FromUint64(And32(Uint64FromInt64(txInfo.Amount))),
       FromUint64(Shr32(Uint64FromInt64(txInfo.Amount))),
       FromUint64(And32(Uint64FromInt64(txInfo.USDCFee))),
       FromUint64(Shr32(Uint64FromInt64(txInfo.USDCFee))) >>

\* the elements appended to elems, in append order
\* TransferElems with the first memo byte appended
TransferElems_WithMemo(txInfo, lighterChainId) ==
    << FromUint32(Uint64FromSmall(lighterChainId)),
       FromUint32(Uint64FromSmall(TxTypeL2Transfer)),
       FromInt64(txInfo.Nonce),
       FromInt64(txInfo.ExpiredAt),
       FromInt64(txInfo.FromAccountIndex),
       FromUint32(Uint64FromSmall(txInfo.ApiKeyIndex)),
       FromInt64(txInfo.ToAccountIndex),
       FromUint32(Uint32FromInt16(txInfo.AssetIndex)),
       FromUint32(Uint64FromSmall(txInfo.FromRouteType)),
       FromUint32(Uint64FromSmall(txInfo.ToRouteType)),
       FromUint64(And32(Uint64FromInt64(txInfo.Amount))),
       FromUint64(Shr32(Uint64FromInt64(txInfo.Amount))),
       FromUint64(And32(Uint64FromInt64(txInfo.USDCFee))),
       FromUint64(Shr32(Uint64FromInt64(txInfo.USDCFee))),
       FromUint32(Uint64FromSmall(txInfo.Memo[1])) >>

\* the elements appended to elems, in append order
TransferElems(txInfo, lighterChainId) ==
    << FromUint32(Uint64FromSmall(lighterChainId)),
       FromUint32(Uint64FromSmall(TxTypeL2Transfer)),
       FromInt64(txInfo.Nonce),
       FromInt64(txInfo.ExpiredAt),
       FromInt64(txInfo.FromAccountIndex),
       FromUint32(Uint64FromSmall(txInfo.ApiKeyIndex)),
       FromInt64(txInfo.ToAccountIndex),
       FromUint32(Uint32FromInt16(txInfo.AssetIndex)),
       FromUint32(Uint64FromSmall(txInfo.FromRouteType)),
       FromUint32(Uint64FromSmall(txInfo.ToRouteType)),
       FromUint64(And32(Uint64FromInt64(txInfo.Amount))),
       FromUint64(Shr32(Uint64FromInt64(txInfo.Amount))),
       FromUint64(And32(Uint64FromInt64(txInfo.USDCFee))),
       FromUint64(Shr32(Uint64FromInt64(txInfo.USDCFee))) >>

TransferHash(txInfo, lighterChainId) ==
    [msgHash |-> HashToQuinticExtension(TransferElems(txInfo, lighterChainId)),
     err |-> nil]

\* ---------------------------------------------------- L2WithdrawTxInfo.Hash
WithdrawElems(txInfo, lighterChainId) ==
    << FromUint32(Uint64FromSmall(lighterChainId)),
       FromUint32(Uint64FromSmall(TxTypeL2Withdraw)),
       FromInt64(txInfo.Nonce),
       FromInt64(txInfo.ExpiredAt),
       FromInt64(txInfo.FromAccountIndex),
       FromUint32(Uint64FromSmall(txInfo.ApiKeyIndex)),
       FromUint32(Uint32FromInt16(txInfo.AssetIndex)),
       FromUint32(Uint64FromSmall(txInfo.RouteType)),
       FromUint64(And32(txInfo.Amount)),
       FromUint64(Shr32(txInfo.Amount)) >>

WithdrawHash(txInfo, lighterChainId) ==
    [msgHash |-> HashToQuinticExtension(WithdrawElems(txInfo, lighterChainId)),
     err |-> nil]

\* ------------------------------------------------------ L1 signature body
\* A string is a sequence of one-character strings.
HexChars == <<"0", "1", "2", "3", "4", "5", "6", "7",
              "8", "9", "a", "b", "c", "d", "e", "f">>

\* the four lowercase hex digits of a 16-bit limb
Hex16(limb) ==
    << HexChars[(limb \div 4096) + 1], HexChars[((limb \div 256) % 16) + 1],
       HexChars[((limb \div 16) % 16) + 1], HexChars[(limb % 16) + 1] >>

\* getHex10FromUint64: the fixed-width token of value, ten lowercase hex
\* digits, left-zero-padded; ten digits hold 40 bits, bits 0..39 of value
getHex10FromUint64(value) ==
    SubSeq(Hex16(value[3]), 3, 4) \o Hex16(value[2]) \o Hex16(value[1])

\* hex.EncodeToString: two lowercase hex digits per byte
EncodeToString(bytes) ==
    [i \in 1..(2 * Len(bytes)) |->
        IF i % 2 = 1 THEN HexChars[(bytes[(i + 1) \div 2] \div 16) + 1]
        ELSE HexChars[(bytes[i \div 2] % 16) + 1]]

\* strings.Replace(s, old, "", 1): s without the first occurrence of old
ReplaceFirst(s, old) ==
    LET n == Len(old)
        at == {i \in 1..(Len(s) - n + 1) :
                  s[i + n - 1] = old[n] /\ \A j \in 1..(n - 1) : s[i + j - 1] = old[j]}
    IN IF at = {} THEN s
       ELSE LET i == CHOOSE k \in at : \A j \in at : k <= j
            IN SubSeq(s, 1, i - 1) \o SubSeq(s, i + n, Len(s))

\* TemplateTransfer: the literal text before, between and after the eleven
\* %s verbs, in order
TemplateTransfer == [k \in 1..12 |-> <<"text", k>>]

\* fmt.Sprintf(template, args...) with one %s per argument: the template's
\* text pieces and the arguments, interleaved
Sprintf(template, args) ==
    [k \in 1..(2 * Len(args) + 1) |->
        IF k % 2 = 1 THEN template[(k + 1) \div 2] ELSE args[k \div 2]]

\* GetL1SignatureBody with the two route types rendered in each other's place
GetL1SignatureBody_RoutesSwapped(txInfo, chainId) ==
    LET hexMemo == ReplaceFirst(EncodeToString(txInfo.Memo), <<"0", "x">>)
    IN Sprintf(TemplateTransfer,
        << getHex10FromUint64(Uint64FromInt64(txInfo.Nonce)),
           getHex10FromUint64(Uint64FromInt64(txInfo.FromAccountIndex)),
           getHex10FromUint64(Uint64FromSmall(txInfo.ToRouteType)),
           getHex10FromUint64(Uint64FromSmall(txInfo.ApiKeyIndex)),
           getHex10FromUint64(Uint64FromInt64(txInfo.ToAccountIndex)),
           getHex10FromUint64(Uint64FromSmall(txInfo.FromRouteType)),
           getHex10FromUint64(Uint64FromInt16(txInfo.AssetIndex)),
           getHex10FromUint64(Uint64FromInt64(txInfo.Amount)),
           getHex10FromUint64(Uint64FromInt64(txInfo.USDCFee)),
           getHex10FromUint64(Uint64FromSmall(chainId)),
           hexMemo >>)

GetL1SignatureBody(txInfo, chainId) ==
    LET hexMemo == ReplaceFirst(EncodeToString(txInfo.Memo), <<"0", "x">>)
    IN Sprintf(TemplateTransfer,
        << getHex10FromUint64(Uint64FromInt64(txInfo.Nonce)),
           getHex10FromUint64(Uint64FromInt64(txInfo.FromAccountIndex)),
           getHex10FromUint64(Uint64FromSmall(txInfo.FromRouteType)),
           getHex10FromUint64(Uint64FromSmall(txInfo.ApiKeyIndex)),
           getHex10FromUint64(Uint64FromInt64(txInfo.ToAccountIndex)),
           getHex10FromUint64(Uint64FromSmall(txInfo.ToRouteType)),
           getHex10FromUint64(Uint64FromInt16(txInfo.AssetIndex)),
           getHex10FromUint64(Uint64FromInt64(txInfo.Amount)),
           getHex10FromUint64(Uint64FromInt64(txInfo.USDCFee)),
           getHex10FromUint64(Uint64FromSmall(chainId)),
           hexMemo >>)

\* ------------------------------------------------------------ instances
\* len of the Memo array
MemoLen == 32

ZeroMemo == [i \in 1..MemoLen |-> 0]

SomeMemo == [i \in 1..MemoLen |-> IF i = 1 THEN 10 ELSE IF i = MemoLen THEN 255 ELSE 0]

\* 1 << 32
TwoTo32 == <<0, 0, 1, 0>>

\* a transfer built from a well-formed request
RequestTransfer ==
    [FromAccountIndex |-> I(1), ApiKeyIndex |-> 0, ToAccountIndex |-> I(0),
     AssetIndex |-> 1, FromRouteType |-> 0, ToRouteType |-> 1,
     Amount |-> I(1), USDCFee |-> I(0), Memo |-> ZeroMemo,
     ExpiredAt |-> I(0), Nonce |-> I(0),
     Sig |-> <<>>, L1Sig |-> "", SignedHash |-> ""]

\* L2TransferTxInfo{}: every field at its zero value
ZeroTransfer ==
    [FromAccountIndex |-> I(0), ApiKeyIndex |-> 0, ToAccountIndex |-> I(0),
     AssetIndex |-> 0, FromRouteType |-> 0, ToRouteType |-> 0,
     Amount |-> I(0), USDCFee |-> I(0), Memo |-> ZeroMemo,
     ExpiredAt |-> I(0), Nonce |-> I(0),
     Sig |-> <<>>, L1Sig |-> "", SignedHash |-> ""]

\* a withdrawal built from a well-formed request
RequestWithdraw ==
    [FromAccountIndex |-> I(0), ApiKeyIndex |-> 0, AssetIndex |-> 1,
     RouteType |-> 0, Amount |-> U(1), ExpiredAt |-> I(0), Nonce |-> I(0),
     Sig |-> <<>>, SignedHash |-> ""]

\* L2WithdrawTxInfo{}: every field at its zero value
ZeroWithdraw ==
    [FromAccountIndex |-> I(0), ApiKeyIndex |-> 0, AssetIndex |-> 0,
     RouteType |-> 0, Amount |-> U64Zero, ExpiredAt |-> I(0), Nonce |-> I(0),
     Sig |-> <<>>, SignedHash |-> ""]

\* values a caller assigns to the fields of an L2TransferTxInfo
TransferFieldValues ==
    [FromAccountIndex |-> {I(-1), MinAccountIndex, I(1), MaxAccountIndex, AddI64(MaxAccountIndex, I(1))},
     ApiKeyIndex |-> {MinApiKeyIndex, MaxApiKeyIndex, MaxApiKeyIndex + 1},
     ToAccountIndex |-> {I(-1), MinAccountIndex, MaxAccountIndex, AddI64(MaxAccountIndex, I(1))},
     AssetIndex |-> {-1, MinAssetIndex - 1, MinAssetIndex, MaxAssetIndex, MaxAssetIndex + 1},
     FromRouteType |-> {0, 1, 2},
     ToRouteType |-> {0, 1, 2},
     Amount |-> {I(-1), I(0), I(1), I64(FALSE, SubU64(TwoTo32, U(1))), I64(FALSE, TwoTo32),
                 MaxTransferAmount, AddI64(MaxTransferAmount, I(1))},
     USDCFee |-> {I(-1), I(0), I64(FALSE, SubU64(TwoTo32, U(1))),
                  MaxTransferAmount, AddI64(MaxTransferAmount, I(1))},
     Memo |-> {ZeroMemo, SomeMemo},
     ExpiredAt |-> {I(-1), I(0), MaxTimestamp, AddI64(MaxTimestamp, I(1))},
     Nonce |-> {I(-1), MinNonce},
     Sig |-> {<<>>, <<1, 2>>},
     L1Sig |-> {"", "l1sig"},
     SignedHash |-> {"", "signedhash"}]

\* values a caller assigns to the fields of an L2WithdrawTxInfo
WithdrawFieldValues ==
    [FromAccountIndex |-> {I(-1), MinAccountIndex, I(1), MaxAccountIndex, AddI64(MaxAccountIndex, I(1))},
     ApiKeyIndex |-> {MinApiKeyIndex, MaxApiKeyIndex, MaxApiKeyIndex + 1},
     AssetIndex |-> {-1, MinAssetIndex - 1, MinAssetIndex, MaxAssetIndex, MaxAssetIndex + 1},
     RouteType |-> {0, 1, 2, 255},
     Amount |-> {U64Zero, U(1), SubU64(TwoTo32, U(1)), TwoTo32, MaxWithdrawalAmount,
                 AddU64(MaxWithdrawalAmount, U(1)), U64Max},
     ExpiredAt |-> {I(-1), I(0), MaxTimestamp, AddI64(MaxTimestamp, I(1))},
     Nonce |-> {I(-1), MinNonce},
     Sig |-> {<<>>, <<1, 2>>},
     SignedHash |-> {"", "signedhash"}]

FieldValues(k) == IF k = "transfer" THEN TransferFieldValues ELSE WithdrawFieldValues

\* chain ids passed to Hash and GetL1SignatureBody
ChainIds == {300, 304}

\* number of field assignments a caller makes on one instance
MaxAssign == 1

\* ---------------------------------------------------------------- state
VARIABLES
    kind,       \* "transfer": the instance is an L2TransferTxInfo; "withdraw": an L2WithdrawTxInfo
    txInfo,     \* the instance's fields
    ret,        \* the last method call: its receiver's fields, its argument and what it returned
    validated,  \* history: Validate returned nil and no field was assigned since
    assigned    \* history: number of field assignments so far

vars == <<kind, txInfo, ret, validated, assigned>>

NoCall == [op |-> "none", recv |-> <<>>, chainId |-> 0, val |-> <<>>]

Init ==
    /\ kind \in {"transfer", "withdraw"}
    /\ txInfo \in (IF kind = "transfer" THEN {RequestTransfer, ZeroTransfer}
                   ELSE {RequestWithdraw, ZeroWithdraw})
    /\ ret = NoCall
    /\ validated = FALSE
    /\ assigned = 0

\* the caller assigns value v to exported field f
SetField(f, v) ==
    /\ assigned < MaxAssign
    /\ v # txInfo[f]
    /\ txInfo' = [txInfo EXCEPT ![f] = v]
    /\ validated' = FALSE
    /\ assigned' = assigned + 1
    /\ UNCHANGED <<kind, ret>>

CallTransferValidate ==
    /\ kind = "transfer"
    /\ ret' = [op |-> "Validate", recv |-> txInfo, chainId |-> 0, val |-> TransferValidate(txInfo)]
    /\ validated' = (TransferValidate(txInfo) = nil)
    /\ UNCHANGED <<kind, txInfo, assigned>>

CallWithdrawValidate ==
    /\ kind = "withdraw"
    /\ ret' = [op |-> "Validate", recv |-> txInfo, chainId |-> 0, val |-> WithdrawValidate(txInfo)]
    /\ validated' = (WithdrawValidate(txInfo) = nil)
    /\ UNCHANGED <<kind, txInfo, assigned>>

CallTransferHash(lighterChainId) ==
    /\ kind = "transfer"
    /\ ret' = [op |-> "Hash", recv |-> txInfo, chainId |-> lighterChainId,
               val |-> TransferHash(txInfo, lighterChainId)]
    /\ UNCHANGED <<kind, txInfo, validated, assigned>>

CallWithdrawHash(lighterChainId) ==
    /\ kind = "withdraw"
    /\ ret' = [op |-> "Hash", recv |-> txInfo, chainId |-> lighterChainId,
               val |-> WithdrawHash(txInfo, lighterChainId)]
    /\ UNCHANGED <<kind, txInfo, validated, assigned>>

CallGetL1SignatureBody(chainId) ==
    /\ kind = "transfer"
    /\ ret' = [op |-> "GetL1SignatureBody", recv |-> txInfo, chainId |-> chainId,
               val |-> GetL1SignatureBody(txInfo, chainId)]
    /\ UNCHANGED <<kind, txInfo, validated, assigned>>

Next ==
    \/ \E f \in DOMAIN FieldValues(kind) : \E v \in FieldValues(kind)[f] : SetField(f, v)
    \/ CallTransferValidate
    \/ CallWithdrawValidate
    \/ \E c \in ChainIds : CallTransferHash(c)
    \/ \E c \in ChainIds : CallWithdrawHash(c)
    \/ \E c \in ChainIds : CallGetL1SignatureBody(c)

Spec == Init /\ [][Next]_vars

\* ============================================================== claims
\* The constraints of a transfer, in the order the contract lists them; bad
\* tells whether t violates the constraint.
TransferChecks(t) ==
    << [field |-> "FromAccountIndex", err |-> "ErrFromAccountIndexTooLow",
        bad |-> ~LtI64(MinAccountIndex, t.FromAccountIndex)],
       [field |-> "FromAccountIndex", err |-> "ErrFromAccountIndexTooHigh",
        bad |-> LtI64(MaxAccountIndex, t.FromAccountIndex)],
       [field |-> "ApiKeyIndex", err |-> "ErrApiKeyIndexTooLow",
        bad |-> t.ApiKeyIndex < MinApiKeyIndex],
       [field |-> "ApiKeyIndex", err |-> "ErrApiKeyIndexTooHigh",
        bad |-> t.ApiKeyIndex > MaxApiKeyIndex],
       [field |-> "ToAccountIndex", err |-> "ErrToAccountIndexTooLow",
        bad |-> LtI64(t.ToAccountIndex, MinAccountIndex)],
       [field |-> "ToAccountIndex", err |-> "ErrToAccountIndexTooHigh",
        bad |-> LtI64(MaxAccountIndex, t.ToAccountIndex)],
       [field |-> "AssetIndex", err |-> "ErrAssetIndexTooLow",
        bad |-> t.AssetIndex < MinAssetIndex],
       [field |-> "AssetIndex", err |-> "ErrAssetIndexTooHigh",
        bad |-> t.AssetIndex > MaxAssetIndex],
       [field |-> "FromRouteType", err |-> "ErrRouteTypeInvalid",
        bad |-> t.FromRouteType \notin {AssetRouteType_Perps, AssetRouteType_Spot}],
       [field |-> "ToRouteType", err |-> "ErrRouteTypeInvalid",
        bad |-> t.ToRouteType \notin {AssetRouteType_Perps, AssetRouteType_Spot}],
       [field |-> "Amount", err |-> "ErrTransferAmountTooLow",
        bad |-> t.Amount.neg \/ t.Amount.mag = U64Zero],
       [field |-> "Amount", err |-> "ErrTransferAmountTooHigh",
        bad |-> LtI64(MaxTransferAmount, t.Amount)],
       [field |-> "USDCFee", err |-> "ErrTransferFeeNegative",
        bad |-> t.USDCFee.neg],
       [field |-> "USDCFee", err |-> "ErrTransferFeeTooHigh",
        bad |-> LtI64(MaxTransferAmount, t.USDCFee)],
       [field |-> "Nonce", err |-> "ErrNonceTooLow",
        bad |-> LtI64(t.Nonce, MinNonce)],
       [field |-> "ExpiredAt", err |-> "ErrExpiredAtInvalid",
        bad |-> t.ExpiredAt.neg \/ LtI64(MaxTimestamp, t.ExpiredAt)] >>

\* The constraints of a withdrawal, in the order the contract lists them.
WithdrawChecks(t) ==
    << [field |-> "FromAccountIndex", err |-> "ErrFromAccountIndexTooLow",
        bad |-> LtI64(t.FromAccountIndex, MinAccountIndex)],
       [field |-> "FromAccountIndex", err |-> "ErrFromAccountIndexTooHigh",
        bad |-> LtI64(MaxAccountIndex, t.FromAccountIndex)],
       [field |-> "ApiKeyIndex", err |-> "ErrApiKeyIndexTooLow",
        bad |-> t.ApiKeyIndex < MinApiKeyIndex],
       [field |-> "ApiKeyIndex", err |-> "ErrApiKeyIndexTooHigh",
        bad |-> t.ApiKeyIndex > MaxApiKeyIndex],
       [field |-> "AssetIndex", err |-> "ErrAssetIndexTooLow",
        bad |-> t.AssetIndex < MinAssetIndex],
       [field |-> "AssetIndex", err |-> "ErrAssetIndexTooHigh",
        bad |-> t.AssetIndex > MaxAssetIndex],
       [field |-> "RouteType", err |-> "ErrRouteTypeInvalid",
        bad |-> t.RouteType \notin {AssetRouteType_Perps, AssetRouteType_Spot}],
       [field |-> "Amount", err |-> "ErrWithdrawalAmountTooLow",
        bad |-> t.Amount = U64Zero],
       [field |-> "Amount", err |-> "ErrWithdrawalAmountTooHigh",
        bad |-> LtU64(MaxWithdrawalAmount, t.Amount)],
       [field |-> "Nonce", err |-> "ErrNonceTooLow",
        bad |-> LtI64(t.Nonce, MinNonce)],
       [field |-> "ExpiredAt", err |-> "ErrExpiredAtInvalid",
        bad |-> t.ExpiredAt.neg \/ LtI64(MaxTimestamp, t.ExpiredAt)] >>

Checks(k, t) == IF k = "transfer" THEN TransferChecks(t) ELSE WithdrawChecks(t)

\* indices of the violated constraints
Violated(checks) == {i \in 1..Len(checks) : checks[i].bad}

\* the error of the earliest violated constraint, nil when there is none
FirstViolated(checks) ==
    IF Violated(checks) = {} THEN nil
    ELSE checks[CHOOSE i \in Violated(checks) : \A j \in Violated(checks) : i <= j].err

\* every constraint on a field outside fields holds
OthersValid(checks, fields) ==
    \A i \in 1..Len(checks) : checks[i].field \notin fields => ~checks[i].bad

\* C3: whenever Validate has returned, on a transfer or a withdrawal, it
\* returned the error of the earliest violated constraint of the listed order,
\* and nil exactly when no constraint is violated.
C3_FirstViolatedConstraint ==
    ret.op = "Validate" =>
        /\ ret.val = FirstViolated(Checks(kind, ret.recv))
        /\ (ret.val = nil) <=> (Violated(Checks(kind, ret.recv)) = {})

\* C3 witness: Validate has run on a transfer that violates an AssetIndex
\* and an Amount constraint at once and returned the earlier one.
C3_Witness ==
    /\ kind = "transfer"
    /\ ret.op = "Validate"
    /\ Violated(TransferChecks(ret.recv)) = {7, 11}
    /\ ret.val = "ErrAssetIndexTooLow"

\* C5: Validate on a transfer whose other fields are all valid returns
\* ErrTransferAmountTooLow for Amount <= 0, ErrTransferAmountTooHigh for
\* Amount > MaxTransferAmount, and nil for Amount in (0, MaxTransferAmount].
C5_TransferAmountBounds ==
    (/\ kind = "transfer"
     /\ ret.op = "Validate"
     /\ OthersValid(TransferChecks(ret.recv), {"Amount"})) =>
        LET a == ret.recv.Amount
        IN /\ (a.neg \/ a = I(0)) => ret.val = "ErrTransferAmountTooLow"
           /\ LtI64(MaxTransferAmount, a) => ret.val = "ErrTransferAmountTooHigh"
           /\ (LtI64(I(0), a) /\ ~LtI64(MaxTransferAmount, a)) => ret.val = nil

\* C5 witness: Validate has rejected Amount = MaxTransferAmount + 1 on a
\* transfer whose other fields are valid.
C5_Witness ==
    /\ kind = "transfer"
    /\ ret.op = "Validate"
    /\ OthersValid(TransferChecks(ret.recv), {"Amount"})
    /\ ret.recv.Amount = AddI64(MaxTransferAmount, I(1))
    /\ ret.val = "ErrTransferAmountTooHigh"

\* C6: Validate on a withdrawal whose other fields are all valid returns
\* ErrRouteTypeInvalid for every RouteType other than AssetRouteType_Perps and
\* AssetRouteType_Spot, and nil for either of the two.
C6_WithdrawRouteType ==
    (/\ kind = "withdraw"
     /\ ret.op = "Validate"
     /\ OthersValid(WithdrawChecks(ret.recv), {"RouteType"})) =>
        /\ ret.recv.RouteType = AssetRouteType_Perps => ret.val = nil
        /\ ret.recv.RouteType = AssetRouteType_Spot => ret.val = nil
        /\ ret.recv.RouteType \notin {AssetRouteType_Perps, AssetRouteType_Spot}
              => ret.val = "ErrRouteTypeInvalid"

\* C6 witness: Validate has accepted RouteType = AssetRouteType_Spot on a
\* withdrawal whose other fields are valid.
C6_Witness ==
    /\ kind = "withdraw"
    /\ ret.op = "Validate"
    /\ OthersValid(WithdrawChecks(ret.recv), {"RouteType"})
    /\ ret.recv.RouteType = AssetRouteType_Spot
    /\ ret.val = nil

\* C9: the smallest FromAccountIndex a transfer's Validate accepts is
\* MinAccountIndex + 1, one above the smallest ToAccountIndex it accepts and
\* one above the smallest FromAccountIndex a withdrawal's Validate accepts
\* (both MinAccountIndex).
C9_SenderMinimumAsymmetry ==
    ret.op = "Validate" =>
        LET t == ret.recv
            lowest == AddI64(MinAccountIndex, I(1))
        IN IF kind = "transfer"
           THEN /\ LtI64(t.FromAccountIndex, lowest) => ret.val = "ErrFromAccountIndexTooLow"
                /\ t.FromAccountIndex = MinAccountIndex => ret.val = "ErrFromAccountIndexTooLow"
                /\ ret.val = nil => ~LtI64(t.ToAccountIndex, MinAccountIndex)
                /\ (/\ OthersValid(TransferChecks(t), {"FromAccountIndex", "ToAccountIndex"})
                    /\ t.FromAccountIndex = lowest
                    /\ t.ToAccountIndex = MinAccountIndex) => ret.val = nil
           ELSE /\ LtI64(t.FromAccountIndex, MinAccountIndex)
                      => ret.val = "ErrFromAccountIndexTooLow"
                /\ (/\ OthersValid(WithdrawChecks(t), {"FromAccountIndex"})
                    /\ t.FromAccountIndex = MinAccountIndex) => ret.val = nil

\* C9 witness: Validate has rejected FromAccountIndex = MinAccountIndex on a
\* transfer whose other fields are valid and whose ToAccountIndex is
\* MinAccountIndex.
C9_Witness ==
    /\ kind = "transfer"
    /\ ret.op = "Validate"
    /\ OthersValid(TransferChecks(ret.recv), {"FromAccountIndex"})
    /\ ret.recv.FromAccountIndex = MinAccountIndex
    /\ ret.recv.ToAccountIndex = MinAccountIndex
    /\ ret.val = "ErrFromAccountIndexTooLow"

\* the low and the high 32 bits of a uint64
Low32(v) == <<v[1], v[2], 0, 0>>

High32(v) == <<v[3], v[4], 0, 0>>

\* C4: whenever Hash has returned, the digest is that of the preimage in the
\* declared order: 14 elements for a transfer, 10 for a withdrawal, each
\* 64-bit amount or fee as its low limb then its high limb.
C4_CanonicalPreimage ==
    ret.op = "Hash" =>
        LET e == ret.val.msgHash.digestOf
            t == ret.recv
        IN /\ ret.val.err = nil
           /\ e[1] = U(ret.chainId)
           /\ e[3] = FromInt64(t.Nonce)
           /\ e[4] = FromInt64(t.ExpiredAt)
           /\ e[5] = FromInt64(t.FromAccountIndex)
           /\ e[6] = U(t.ApiKeyIndex)
           /\ IF kind = "transfer"
              THEN /\ Len(e) = 14
                   /\ e[2] = U(TxTypeL2Transfer)
                   /\ e[7] = FromInt64(t.ToAccountIndex)
                   /\ e[8] = Uint32FromInt16(t.AssetIndex)
                   /\ e[9] = U(t.FromRouteType)
                   /\ e[10] = U(t.ToRouteType)
                   /\ e[11] = Low32(Uint64FromInt64(t.Amount))
                   /\ e[12] = High32(Uint64FromInt64(t.Amount))
                   /\ e[13] = Low32(Uint64FromInt64(t.USDCFee))
                   /\ e[14] = High32(Uint64FromInt64(t.USDCFee))
              ELSE /\ Len(e) = 10
                   /\ e[2] = U(TxTypeL2Withdraw)
                   /\ e[7] = Uint32FromInt16(t.AssetIndex)
                   /\ e[8] = U(t.RouteType)
                   /\ e[9] = Low32(t.Amount)
                   /\ e[10] = High32(t.Amount)

\* C4 witness: Hash has returned for a transfer with Amount 2^32 under chain
\* id 304.
C4_Witness ==
    /\ kind = "transfer"
    /\ ret.op = "Hash"
    /\ ret.chainId = 304
    /\ ret.recv.Amount = I64(FALSE, TwoTo32)
    /\ ret.val.msgHash.digestOf[1] = U(304)
    /\ ret.val.msgHash.digestOf[11] = U64Zero
    /\ ret.val.msgHash.digestOf[12] = U(1)

\* the limbs of a preimage that hold a 64-bit quantity, with the quantity's
\* bit pattern read back as the field's type
LimbPairs(k, e, t) ==
    IF k = "transfer"
    THEN {<<e[11], e[12], t.Amount>>, <<e[13], e[14], t.USDCFee>>}
    ELSE {<<e[9], e[10], Int64FromUint64(t.Amount)>>}

\* C7: whenever Hash has returned, each amount or fee limb is below 2^32 and
\* low + (high << 32) is the field's 64-bit pattern: for an int64 field the
\* two's complement pattern, which read back as int64 is the field's value.
C7_LimbRoundTrip ==
    ret.op = "Hash" =>
        \A p \in LimbPairs(kind, ret.val.msgHash.digestOf, ret.recv) :
            /\ LtU64(p[1], TwoTo32)
            /\ LtU64(p[2], TwoTo32)
            /\ Int64FromUint64(AddU64(p[1], Shl32(p[2]))) = p[3]
            /\ kind = "withdraw" => AddU64(p[1], Shl32(p[2])) = ret.recv.Amount

\* C7 witness: Hash has returned for a transfer with Amount -1, whose
\* pattern 2^64 - 1 is split into two limbs 2^32 - 1.
C7_Witness ==
    /\ kind = "transfer"
    /\ ret.op = "Hash"
    /\ ret.recv.Amount = I(-1)
    /\ ret.val.msgHash.digestOf[11] = <<Base - 1, Base - 1, 0, 0>>
    /\ ret.val.msgHash.digestOf[12] = <<Base - 1, Base - 1, 0, 0>>

\* the values rendered into the template, in token order
TokenFields ==
    <<"Nonce", "FromAccountIndex", "FromRouteType", "ApiKeyIndex", "ToAccountIndex",
      "ToRouteType", "AssetIndex", "Amount", "USDCFee", "chainId", "Memo">>

\* positions at which two rendered bodies differ
BodyDiff(b1, b2) == {i \in 1..Len(b1) : b1[i] # b2[i]}

TokenWord(f, v) ==
    IF f \in {"Nonce", "FromAccountIndex", "ToAccountIndex", "Amount", "USDCFee"}
        THEN Uint64FromInt64(v)
    ELSE IF f = "AssetIndex" THEN Uint64FromInt16(v)
    ELSE U(v)

\* bits 0..39 of a 64-bit word: what a ten-digit hex token can hold
Low40(w) == <<w[1], w[2], w[3] % 256>>

\* two values of field f that a token tells apart: any two memos, and two
\* numbers whose words differ in bits 0..39
WithinCapacity(f, v, w) ==
    IF f = "Memo" THEN v # w
    ELSE Low40(TokenWord(f, v)) # Low40(TokenWord(f, w))

SameTransfers(t) ==
    {[t EXCEPT !.Sig = s, !.L1Sig = l, !.SignedHash = h, !.Memo = m] :
        s \in TransferFieldValues.Sig, l \in TransferFieldValues.L1Sig,
        h \in TransferFieldValues.SignedHash, m \in TransferFieldValues.Memo}

\* the withdrawals that agree with t on every field but Sig, SignedHash
SameWithdraws(t) ==
    {[t EXCEPT !.Sig = s, !.SignedHash = h] :
        s \in WithdrawFieldValues.Sig, h \in WithdrawFieldValues.SignedHash}

\* what Validate and Hash have returned is what they return on every instance
\* with the same identity and operation fields; a transfer's Memo is read by
\* GetL1SignatureBody
C10_ResultFieldsNotRead ==
    /\ (kind = "transfer" /\ ret.op = "Validate") =>
            \A u \in SameTransfers(ret.recv) : TransferValidate(u) = ret.val
    /\ (kind = "transfer" /\ ret.op = "Hash") =>
            \A u \in SameTransfers(ret.recv) : TransferHash(u, ret.chainId) = ret.val
    /\ (kind = "withdraw" /\ ret.op = "Validate") =>
            \A u \in SameWithdraws(ret.recv) : WithdrawValidate(u) = ret.val
    /\ (kind = "withdraw" /\ ret.op = "Hash") =>
            \A u \in SameWithdraws(ret.recv) : WithdrawHash(u, ret.chainId) = ret.val
    /\ ret.op = "GetL1SignatureBody" =>
            \A m \in TransferFieldValues.Memo \ {ret.recv.Memo} :
                GetL1SignatureBody([ret.recv EXCEPT !.Memo = m], ret.chainId) # ret.val

\* a method call leaves every field of its receiver as it was
C10_CallsWriteNoField == (ret' # ret) => (txInfo' = txInfo /\ ret'.recv = txInfo)

\* C10: Sig, L1Sig, SignedHash and a transfer's Memo are inputs to neither
\* Validate nor Hash (instances differing only in them get the same error and
\* the same preimage and digest), the Memo is covered by the L1 signature body,
\* and no method call changes a field.
C10_ResultFieldsAreNotInputs ==
    []C10_ResultFieldsNotRead /\ [][C10_CallsWriteNoField]_vars

\* C10 witness: Hash has returned for a transfer carrying a memo, with the
\* digest of the same transfer with the zero memo.
C10_Witness ==
    /\ kind = "transfer"
    /\ ret.op = "Hash"
    /\ ret.recv.Memo = SomeMemo
    /\ ret.val = TransferHash([ret.recv EXCEPT !.Memo = ZeroMemo], ret.chainId)

\* C1 (as claimed): Hash returns a digest only on an instance on which
\* Validate has returned nil for the current field values.
C1_ValidateBeforeHash ==
    [][(ret' # ret /\ ret'.op = "Hash") => validated]_vars

\* C2 (as claimed): the digest a caller holds from Hash is the digest of the
\* instance's current field values; no field changes once Hash has returned.
C2_HashedIsImmutable ==
    ret.op = "Hash" =>
        ret.val = (IF kind = "transfer" THEN TransferHash(txInfo, ret.chainId)
                   ELSE WithdrawHash(txInfo, ret.chainId))

====
